---- MODULE Spec2Model ----
(***************************************************************************)
(* Model of src/PCA+ARIMA.py: the PCA + ARIMA macroeconomic forecasting    *)
(* script.  Three specifications share the module:                         *)
(*   SpecPCA       the function apply_pca applied to a bounded panel,      *)
(*   SpecForecast  the function forecast_pcs applied to a bounded factor   *)
(*                 set,                                                    *)
(*   Spec          the script's top-level pipeline, block by block.        *)
(* The numerical libraries (sklearn PCA, statsmodels OLS, pmdarima         *)
(* auto_arima) are oracles: their results are drawn from small sets.       *)
(* Floating-point values are records [nan, v]: either NaN or an integer.   *)
(***************************************************************************)
EXTENDS Integers, Sequences, FiniteSets, TLC

VARIABLES
    pc,                 \* position in the script / in the function under test
    status,             \* "ok", or the exception that ended the run
    data_shape,         \* <<rows, columns>> of the panel given to apply_pca
    explained_variance, \* pca_model.explained_variance_ (one entry per component)
    pca_runs,           \* SpecPCA: the calls of apply_pca made on the panel
    num_pc,             \* the factor count returned by apply_pca (0: none yet)
    last_observed,      \* last period label of the panel (index of pca_data)
    n_periods,          \* the horizon passed to forecast_pcs
    df_pca_result,      \* the factor set: one summary per column PC0, PC1, ...
    df_pca_result_predict_base,  \* the table returned by forecast_pcs
    macro_data_filled,  \* the historical panel: one row per observed period
    Mean, Std, Std_10Y, \* per-variable normalization parameters (lines 126-128)
    macro_list_sign,    \* per-variable sign (line 104)
    univariate_fits,             \* LR of each fitted (variable, component) pair (line 153)
    df_univariate_info,          \* rows appended at lines 155-160
    df_univariate_info_filter,   \* the rows kept at lines 163-167
    df_pca_regression,           \* the regression records (lines 203-214)
    merged_frames,               \* the joined frame of each period, before fillna
    df_pca_regression_predict_base,
    df_pca_result_base,          \* groupby sum (line 247)
    df_pca_regression_predict_final_base,   \* the base forecast (lines 256-262)
    df_pca_regression_predict_final_opt,
    df_pca_regression_predict_final_pes,
    df_pca_regression_predict_final_ext_opt,
    df_pca_regression_predict_final_ext_pes

pcaVars == <<data_shape, explained_variance, pca_runs, num_pc>>
fcVars == <<last_observed, n_periods, df_pca_result, df_pca_result_predict_base>>
inVars == <<macro_data_filled, Mean, Std, Std_10Y, macro_list_sign>>
regVars == <<univariate_fits, df_univariate_info, df_univariate_info_filter, df_pca_regression>>
recVars == <<merged_frames, df_pca_regression_predict_base, df_pca_result_base,
             df_pca_regression_predict_final_base>>
scenVars == <<df_pca_regression_predict_final_opt, df_pca_regression_predict_final_pes,
              df_pca_regression_predict_final_ext_opt,
              df_pca_regression_predict_final_ext_pes>>

vars == <<pc, status, pcaVars, fcVars, inVars, regVars, recVars, scenVars>>

(***************************************************************************)
(* Bounds of the model.                                                    *)
(***************************************************************************)
MaxRows == 3
MaxCols == 3
MaxVariance == 2
MaxDen == 5
MaxCalls == 2
MaxPeriods == 2
MaxFactors == 2

(***************************************************************************)
(* Small helpers.                                                          *)
(***************************************************************************)
Min(a, b) == IF a <= b THEN a ELSE b

RECURSIVE SumTo(_, _)
\* np.cumsum(s)[k-1]: the sum of the first k entries of s
SumTo(s, k) == IF k = 0 THEN 0 ELSE SumTo(s, k - 1) + s[k]

(***************************************************************************)
(* apply_pca (lines 40-58).                                                *)
(***************************************************************************)
\* variance thresholds in (0,1), as fractions <<numerator, denominator>>
Thresholds == {t \in (1..MaxDen) \X (2..MaxDen) : t[1] < t[2]}

\* t1 <= t2 for two fractions
ThrLeq(t1, t2) == t1[1] * t2[2] <= t2[1] * t1[2]

\* explained_variance_ of a PCA with n components on an r x c panel: sorted in
\* decreasing order, and zero beyond the rank of the centred panel (<= r - 1)
VarianceSeqs(r, c) ==
    {s \in [1..Min(r, c) -> 0..MaxVariance] :
        /\ \A i \in 1..(Min(r, c) - 1) : s[i] >= s[i + 1]
        /\ \A i \in 1..Min(r, c) : i > r - 1 => s[i] = 0}

\* (variant of Reaches with the comparison reversed: val < variance_threshold)
ReachesMutLess(ev, k, t) ==
    /\ SumTo(ev, Len(ev)) > 0
    /\ SumTo(ev, k) * t[2] < t[1] * SumTo(ev, Len(ev))

\* `val >= variance_threshold` at line 48, val = variance_cumsum[k-1]:
\* explained_variance_ratio_ is explained_variance_ / total_var, which is NaN
\* when the total variance is 0, and a comparison with NaN is false
Reaches(ev, k, t) ==
    /\ SumTo(ev, Len(ev)) > 0
    /\ SumTo(ev, k) * t[2] >= t[1] * SumTo(ev, Len(ev))

\* line 48: next((i + 1 for i, val in enumerate(variance_cumsum) if val >= thr),
\*               data.shape[1])
NumPc(shape, ev, t) ==
    IF \E k \in 1..Len(ev) : Reaches(ev, k, t)
    THEN CHOOSE k \in 1..Len(ev) :
            /\ Reaches(ev, k, t)
            /\ \A j \in 1..(k - 1) : ~Reaches(ev, j, t)
    ELSE shape[2]

\* the whole function: the column guard (line 43), the count (line 48), the
\* second fit PCA(n_components=num_pc), which sklearn rejects when num_pc is
\* larger than min(rows, columns) (lines 51-52), and the re-raise (line 58)
apply_pca(shape, ev, t) ==
    IF shape[2] < 2
    THEN [status |-> "ValueError", num_pc |-> 0]
    ELSE IF NumPc(shape, ev, t) > Min(shape[1], shape[2])
         THEN [status |-> "ValueError", num_pc |-> NumPc(shape, ev, t)]
         ELSE [status |-> "ok", num_pc |-> NumPc(shape, ev, t)]

(***************************************************************************)
(* Floating-point values: NaN or a number.                                 *)
(***************************************************************************)
NaN == [nan |-> TRUE, v |-> 0]
Num(x) == [nan |-> FALSE, v |-> x]

FAdd(a, b) == IF a.nan \/ b.nan THEN NaN ELSE Num(a.v + b.v)
FSub(a, b) == IF a.nan \/ b.nan THEN NaN ELSE Num(a.v - b.v)
FMul(a, b) == IF a.nan \/ b.nan THEN NaN ELSE Num(a.v * b.v)
\* comparisons with NaN are false
FLt(a, b) == ~a.nan /\ ~b.nan /\ a.v < b.v
FGt(a, b) == ~a.nan /\ ~b.nan /\ a.v > b.v
FEq(a, b) == ~a.nan /\ ~b.nan /\ a.v = b.v

RECURSIVE FSum(_)
\* the sum a groupby aggregation gives the cells of one group: missing cells
\* are skipped, and a group with no defined cell sums to 0
FSum(s) ==
    IF s = << >> THEN Num(0)
    ELSE IF s[1].nan THEN FSum(Tail(s))
    ELSE FAdd(s[1], FSum(Tail(s)))

RECURSIVE Flatten(_)
\* concatenation of a sequence of sequences
Flatten(ss) == IF ss = << >> THEN << >> ELSE ss[1] \o Flatten(Tail(ss))

(***************************************************************************)
(* Labels.                                                                 *)
(***************************************************************************)
Digits == <<"0", "1", "2", "3", "4", "5", "6", "7", "8", "9">>

RECURSIVE Str(_)
\* str(i) of a non-negative integer
Str(i) == IF i < 10 THEN Digits[i + 1] ELSE Str(i \div 10) \o Digits[(i % 10) + 1]

\* f'PC{i}'
PCName(i) == "PC" \o Str(i)

\* [f'PC{i}' for i in range(n)]
PCNames(n) == [i \in 1..n |-> PCName(i - 1)]

\* quarter-end labels: [y, q] is the last day of quarter q of year y
Quarter(y, q) == [y |-> y, q |-> q]

\* the quarter end k quarters after d
AddQuarters(d, k) ==
    LET n == d.y * 4 + (d.q - 1) + k IN Quarter(n \div 4, (n % 4) + 1)

\* pd.date_range(start=start, periods=n, freq='Q'), start being a quarter end
DateRangeQ(start, n) == [j \in 1..n |-> AddQuarters(start, j - 1)]

(***************************************************************************)
(* forecast_pcs (lines 61-82).                                             *)
(***************************************************************************)
\* pd.Timestamp('2023-09-30') at line 77
forecast_start == Quarter(2023, 3)

\* the point forecasts tmp_model.predict can return for one factor series
\* over n periods: two defined paths, and an undefined (NaN) one
ForecastPaths(n) ==
    {[j \in 1..n |-> Num(j + 1)], [j \in 1..n |-> Num(2 * j + 3)], [j \in 1..n |-> NaN]}

\* the forecasts of k factor series: forecasts[i][j] is the forecast of
\* factor i for period j
ForecastOracles(k, n) == [1..k -> ForecastPaths(n)]

\* lines 75-79: DataFrame(np.array(forecasts).T, index=date_range(...),
\*                        columns=[f'PC{i}' ...])
forecast_pcs(pca_data, n, forecasts) ==
    [index |-> DateRangeQ(forecast_start, n),
     columns |-> PCNames(Len(pca_data)),
     values |-> [j \in 1..n |-> [i \in 1..Len(pca_data) |-> forecasts[i][j]]]]

(***************************************************************************)
(* The script's inputs and key parameters (lines 27-33, 88-134).           *)
(***************************************************************************)
\* the columns of the panel: macro_list['Indicator abbreviation'] of the
\* included indicators
macro_list_candidates == <<"CPI", "GDP">>
Variables == {macro_list_candidates[i] : i \in 1..Len(macro_list_candidates)}

\* variance_threshold = 0.8
variance_threshold == <<8, 10>>
\* p_value_threshold = 0.1 and r2_threshold = 0.05, in hundredths
p_value_threshold == 10
r2_threshold == 5
\* predict_period (9 in the script) is run at the model's horizon bound
predict_period == MaxPeriods
n_normal == 1
n_extreme == 3

\* the position of a variable among the columns
ColumnOf(v) == CHOOSE i \in 1..Len(macro_list_candidates) : macro_list_candidates[i] = v

\* the periods of the panel after the subset, the interpolation and the
\* dropna (lines 96-113): quarter ends up to 2023-06-30
PanelDates == <<Quarter(2022, 4), Quarter(2023, 1), Quarter(2023, 2)>>

\* the panel macro_data_filled (lines 96, 107, 111-113): the column of
\* variable number c holds 1, c + 2, 2c + 3, so that its mean and its
\* sample standard deviation are whole numbers
InputPanel ==
    [i \in 1..Len(PanelDates) |->
        [date |-> PanelDates[i],
         cells |-> [v \in Variables |-> Num((ColumnOf(v) + 1) * i - ColumnOf(v))]]]

\* macro_data_10Y_filled (lines 97, 108, 112-114): the rows from '2015-12-31'
\* on, which is also date_s (line 33): the same rows as macro_data_filled
InputPanel10Y == InputPanel

RECURSIVE ColumnSum(_, _, _)
\* the sum of column v over the first k rows of a panel
ColumnSum(panel, v, k) ==
    IF k = 0 THEN 0 ELSE ColumnSum(panel, v, k - 1) + panel[k].cells[v].v

RECURSIVE SquaresSum(_, _, _, _)
\* the sum of the squared deviations of column v from m, over the first k rows
SquaresSum(panel, v, m, k) ==
    IF k = 0 THEN 0
    ELSE SquaresSum(panel, v, m, k - 1)
            + (panel[k].cells[v].v - m) * (panel[k].cells[v].v - m)

\* the square root of a perfect square
Sqrt(x) == CHOOSE r \in 0..x : r * r = x

\* line 126: panel.mean()
PanelMean(panel) ==
    [v \in Variables |-> Num(ColumnSum(panel, v, Len(panel)) \div Len(panel))]

\* lines 127-128: panel.std(ddof=1)
PanelStd(panel) ==
    [v \in Variables |->
        Num(Sqrt(SquaresSum(panel, v, PanelMean(panel)[v].v, Len(panel))
                    \div (Len(panel) - 1)))]

\* a cell of the 'sign' column: +1, -1 or empty
SignVals == {Num(1), Num(0 - 1), NaN}

\* LR.params of a multivariate fit with n regressors (constant included)
ParamSeqs(n) == {[k \in 1..n |-> Num(k + 1)], [k \in 1..n |-> Num(n + 2 - k)]}

\* what lines 183-189 compute from one multivariate fit with n regressors
\* (constant included), in hundredths: a fit whose statistics are all
\* defined, for either sequence of coefficients, and a fit that leaves no
\* residual variation, whose p-values, Durbin-Watson statistic and
\* Breusch-Pagan p-value are 0/0
MultivariateFits(n) ==
    {[params |-> ps, pvalues |-> [k \in 1..n |-> Num(5)], rsquared |-> Num(50),
      reset_pvalue |-> Num(20), dw_pvalue |-> Num(200), shapiro_pvalue |-> Num(30),
      bp_test |-> Num(40), vif_values |-> [k \in 1..n |-> Num(100 + k)]] :
        ps \in ParamSeqs(n)}
    \cup
    {[params |-> [k \in 1..n |-> Num(k + 1)], pvalues |-> [k \in 1..n |-> NaN],
      rsquared |-> Num(100), reset_pvalue |-> Num(20), dw_pvalue |-> NaN,
      shapiro_pvalue |-> Num(30), bp_test |-> NaN,
      vif_values |-> [k \in 1..n |-> Num(100 + k)]]}

\* results of a univariate OLS fit (LR.rsquared, LR.pvalues = <<const, factor>>),
\* in hundredths
UnivariateFits ==
    {[rsquared |-> Num(50), pvalues |-> <<Num(50), Num(5)>>],
     [rsquared |-> Num(50), pvalues |-> <<Num(5), Num(10)>>],
     [rsquared |-> Num(5), pvalues |-> <<Num(50), Num(5)>>],
     [rsquared |-> Num(50), pvalues |-> <<Num(5), NaN>>]}

(***************************************************************************)
(* PCA analysis (line 139).                                                *)
(***************************************************************************)
\* the columns of df_pca_result, as far as the script looks at them: a
\* projection onto a component is constant exactly when the component
\* explains no variance; apply_pca rejects a result holding NaN (line 54)
FactorSet(ev, k) ==
    [i \in 1..k |-> [name |-> PCName(i - 1), isna |-> FALSE,
                     nunique |-> IF ev[i] > 0 THEN 2 ELSE 1]]

(***************************************************************************)
(* Univariate regression and screening (lines 144-167).                    *)
(***************************************************************************)
\* line 149: tmp_ind.isna().any() or tmp_ind.nunique() <= 1
SkipFactor(col) == col.isna \/ col.nunique <= 1

\* line 154: LR.pvalues.get(1, np.nan): the integer key on the label index
\* <<'const', 'PCi'>> is taken as a position (pandas before 3.0)
PValueGet(pvalues) == IF Len(pvalues) >= 2 THEN pvalues[2] ELSE NaN

\* lines 145-160: the rows appended to univariate_info, in loop order
UnivariateInfo(factors, fits) ==
    Flatten([vi \in 1..Len(macro_list_candidates) |->
        Flatten([i \in 1..Len(factors) |->
            IF SkipFactor(factors[i]) THEN << >>
            ELSE <<[macro_variable |-> macro_list_candidates[vi],
                    pca_component |-> i - 1,
                    r_squared |-> fits[<<macro_list_candidates[vi], i - 1>>].rsquared,
                    p_value |-> PValueGet(fits[<<macro_list_candidates[vi], i - 1>>].pvalues)]>>])])

\* lines 163-167: the boolean mask of the filter
\* (variant keeping a p-value equal to the threshold: p_value <= threshold)
KeepRowMutBoundary(row) ==
    /\ ~row.p_value.nan
    /\ ~FGt(row.p_value, Num(p_value_threshold))
    /\ FGt(row.r_squared, Num(r2_threshold))

KeepRow(row) ==
    /\ ~row.p_value.nan
    /\ FLt(row.p_value, Num(p_value_threshold))
    /\ FGt(row.r_squared, Num(r2_threshold))

(***************************************************************************)
(* Multivariate regression (lines 170-214).                                *)
(***************************************************************************)
\* lines 174-176: the retained components of a variable, in frame order
RetainedComponents(filter, v) ==
    LET rows == SelectSeq(filter, LAMBDA r : r.macro_variable = v)
    IN [k \in 1..Len(rows) |-> rows[k].pca_component]

\* lines 191-201: the record rows of one variable, one per regressor, the
\* constant first (sm.add_constant prepends it): the coefficient, p-value and
\* VIF of the regressor, and the statistics of the fit repeated on every row
RecordRows(v, comps, fit) ==
    IF comps = << >> THEN << >>
    ELSE [k \in 1..(Len(comps) + 1) |->
            [macro_variable |-> v,
             principal |-> IF k = 1 THEN "Intercept" ELSE PCName(comps[k - 1]),
             coef |-> fit.params[k],
             p_value |-> fit.pvalues[k],
             r_squared |-> fit.rsquared,
             reset_test |-> fit.reset_pvalue,
             DW_test |-> fit.dw_pvalue,
             sharp_test |-> fit.shapiro_pvalue,
             BP_test |-> fit.bp_test,
             VIF_test |-> fit.vif_values[k]]]

\* lines 173-214: df_pca_regression, with its ten columns
RegressionFrame(filter, fits) ==
    Flatten([vi \in 1..Len(macro_list_candidates) |->
        RecordRows(macro_list_candidates[vi],
                   RetainedComponents(filter, macro_list_candidates[vi]),
                   fits[macro_list_candidates[vi]])])

(***************************************************************************)
(* Reconstruction (lines 222-247).                                         *)
(***************************************************************************)
\* lines 227-232: the one-column frame of a forecast row, keyed by 'principal'
TmpDf(k, tmp_predict_pca) ==
    [i \in 1..k |-> [principal |-> PCName(i - 1), value |-> tmp_predict_pca[i]]]

\* the cell a left join on 'principal' gives a row: the matching row's value,
\* missing (NaN) when no row of tmp_df matches
JoinCell(tmp_df, name) ==
    IF \E t \in 1..Len(tmp_df) : tmp_df[t].principal = name
    THEN tmp_df[CHOOSE t \in 1..Len(tmp_df) : tmp_df[t].principal = name].value
    ELSE NaN

\* lines 233-239: pd.merge(..., how='left'): a new period column
Merge(frame, tmp_df) ==
    [r \in 1..Len(frame) |->
        [frame[r] EXCEPT !.period = Append(@, JoinCell(tmp_df, frame[r].principal))]]

\* fillna(1) on a cell counted in units (coef, period and _predict columns)
Fill1(x) == IF x.nan THEN Num(1) ELSE x

\* fillna(1) on a cell of a statistics column, which is counted in
\* hundredths: the value 1.0 is 100 hundredths
Fill1Hundredths(x) == IF x.nan THEN Num(100) ELSE x

\* line 240: fillna(1, inplace=True) on every column of the frame (the
\* columns macro_variable and principal hold labels, never a missing cell)
Fillna(frame) ==
    [r \in 1..Len(frame) |->
        [frame[r] EXCEPT !.coef = Fill1(@),
                         !.p_value = Fill1Hundredths(@),
                         !.r_squared = Fill1Hundredths(@),
                         !.reset_test = Fill1Hundredths(@),
                         !.DW_test = Fill1Hundredths(@),
                         !.sharp_test = Fill1Hundredths(@),
                         !.BP_test = Fill1Hundredths(@),
                         !.VIF_test = Fill1Hundredths(@),
                         !.period = [j \in 1..Len(@) |-> Fill1(@[j])],
                         !.predict = [j \in 1..Len(@) |-> Fill1(@[j])]]]

\* lines 243-245: the column f"{tmp_predict}_predict" = coef * the period column
AddPredict(frame) ==
    [r \in 1..Len(frame) |->
        [frame[r] EXCEPT !.predict =
            Append(@, FMul(frame[r].coef, frame[r].period[Len(frame[r].period)]))]]

RECURSIVE ReconstructLoop(_, _, _, _)
\* the loop of lines 226-245 from period j on: the final frame and the frame
\* of each iteration as joined, before the fill
ReconstructLoop(frame, merged, j, fc) ==
    IF j > Len(fc.index) THEN [frame |-> frame, merged |-> merged]
    ELSE LET m == Merge(frame, TmpDf(Len(fc.columns), fc.values[j]))
         IN ReconstructLoop(AddPredict(Fillna(m)), Append(merged, m), j + 1, fc)

\* line 223: the copy of the regression table the loop extends
StartFrame(reg) ==
    [r \in 1..Len(reg) |->
        [macro_variable |-> reg[r].macro_variable, principal |-> reg[r].principal,
         coef |-> reg[r].coef, p_value |-> reg[r].p_value,
         r_squared |-> reg[r].r_squared, reset_test |-> reg[r].reset_test,
         DW_test |-> reg[r].DW_test, sharp_test |-> reg[r].sharp_test,
         BP_test |-> reg[r].BP_test, VIF_test |-> reg[r].VIF_test,
         period |-> << >>, predict |-> << >>]]

\* line 247: groupby('macro_variable').agg(sum) of the _predict columns
GroupBySum(frame, n) ==
    [v \in {frame[r].macro_variable : r \in 1..Len(frame)} |->
        [j \in 1..n |->
            LET rows == SelectSeq(frame, LAMBDA r : r.macro_variable = v)
            IN FSum([k \in 1..Len(rows) |-> rows[k].predict[j]])]]

(***************************************************************************)
(* De-normalization (lines 250-262) and scenarios (lines 264-297).         *)
(***************************************************************************)
\* the value pd.concat(axis=1) gives label v in a column: missing when the
\* column has no such label
Cell(column, v) == IF v \in DOMAIN column THEN column[v] ELSE NaN

\* line 254: concat([df_pca_result_base, df_Mean, df_Std, df_Std_10Y], axis=1)
\* is indexed by the union of the labels
ConcatBase(base, n, mean, std, std10) ==
    [v \in DOMAIN base \cup DOMAIN mean \cup DOMAIN std \cup DOMAIN std10 |->
        [predict |-> [j \in 1..n |-> IF v \in DOMAIN base THEN base[v][j] ELSE NaN],
         mean |-> Cell(mean, v), std |-> Cell(std, v), std_10Y |-> Cell(std10, v)]]

\* lines 256-262: column * df_Std['std'] + df_Mean['mean'], aligned on labels
DeNormalize(concat, n, mean, std) ==
    [v \in DOMAIN concat \cup DOMAIN std \cup DOMAIN mean |->
        [j \in 1..n |->
            FAdd(FMul(IF v \in DOMAIN concat THEN concat[v].predict[j] ELSE NaN,
                      Cell(std, v)),
                 Cell(mean, v))]]

\* lines 270-273: df_pca_regression_predict_final, as far as the loop reads it
FinalFrame(final_base, n, std10, sign) ==
    [v \in DOMAIN final_base \cup DOMAIN std10 \cup DOMAIN sign |->
        [predict |-> [j \in 1..n |-> IF v \in DOMAIN final_base THEN final_base[v][j] ELSE NaN],
         std_10Y |-> Cell(std10, v), sign |-> Cell(sign, v)]]

\* lines 282-297: base + direction * n * std_10Y * sign for every period column
Scenario(final, n, direction, mult) ==
    [v \in DOMAIN final |->
        [j \in 1..n |->
            LET shift == FMul(FMul(Num(mult), final[v].std_10Y), final[v].sign)
            IN IF direction = 1 THEN FAdd(final[v].predict[j], shift)
               ELSE FSub(final[v].predict[j], shift)]]

(***************************************************************************)
(* Output (lines 302-330).                                                 *)
(***************************************************************************)
\* the column labels of a panel
PanelColumns(panel) == IF panel = << >> THEN {} ELSE DOMAIN panel[1].cells

\* pd.concat([macro_data_filled, table.T]) (lines 307, 311, 315, 319, 323):
\* the rows of the panel, then one row per forecast period, labelled
\* f"{period}_predict"; the columns are the union of the panel's columns and
\* the table's variables, a cell with no source being missing.  The rename
\* with mapping_dict (line 104) maps every label to itself.
ConcatHistory(panel, table, index) ==
    LET columns == PanelColumns(panel) \cup DOMAIN table
    IN [i \in 1..(Len(panel) + Len(index)) |->
            IF i <= Len(panel)
            THEN [label |-> [date |-> panel[i].date, suffix |-> ""],
                  cells |-> [v \in columns |-> Cell(panel[i].cells, v)]]
            ELSE [label |-> [date |-> index[i - Len(panel)], suffix |-> "_predict"],
                  cells |-> [v \in columns |->
                                IF v \in DOMAIN table THEN table[v][i - Len(panel)]
                                ELSE NaN]]]

(***************************************************************************)
(* Values of the variables a specification does not use yet.               *)
(***************************************************************************)
NoPanel ==
    /\ data_shape = <<0, 0>>
    /\ explained_variance = << >>
NoInputs ==
    /\ macro_data_filled = << >>
    /\ Mean = << >>
    /\ Std = << >>
    /\ Std_10Y = << >>
    /\ macro_list_sign = << >>
NoRegression ==
    /\ univariate_fits = << >>
    /\ df_univariate_info = << >>
    /\ df_univariate_info_filter = << >>
    /\ df_pca_regression = << >>
NoReconstruction ==
    /\ merged_frames = << >>
    /\ df_pca_regression_predict_base = << >>
    /\ df_pca_result_base = << >>
    /\ df_pca_regression_predict_final_base = << >>
NoScenarios ==
    /\ df_pca_regression_predict_final_opt = << >>
    /\ df_pca_regression_predict_final_pes = << >>
    /\ df_pca_regression_predict_final_ext_opt = << >>
    /\ df_pca_regression_predict_final_ext_pes = << >>
NoForecast ==
    /\ n_periods = 0
    /\ df_pca_result = << >>
    /\ df_pca_result_predict_base = << >>

(***************************************************************************)
(* SpecPCA: apply_pca called with several thresholds on one fixed panel.   *)
(***************************************************************************)
InitPCA ==
    /\ pc = "apply_pca"
    /\ status = "ok"
    /\ data_shape \in (2..MaxRows) \X (1..MaxCols)
    /\ explained_variance \in VarianceSeqs(data_shape[1], data_shape[2])
    /\ pca_runs = << >>
    /\ num_pc = 0
    /\ last_observed = Quarter(2023, 2)
    /\ NoForecast /\ NoInputs /\ NoRegression /\ NoReconstruction /\ NoScenarios

CallApplyPca ==
    /\ pc = "apply_pca"
    /\ Len(pca_runs) < MaxCalls
    /\ \E t \in Thresholds :
        LET r == apply_pca(data_shape, explained_variance, t) IN
        /\ pca_runs' = Append(pca_runs, [thr |-> t, status |-> r.status, num_pc |-> r.num_pc])
        /\ num_pc' = r.num_pc
        /\ status' = r.status
    /\ UNCHANGED <<pc, data_shape, explained_variance, fcVars, inVars, regVars,
                   recVars, scenVars>>

NextPCA == CallApplyPca

SpecPCA == InitPCA /\ [][NextPCA]_vars

(***************************************************************************)
(* SpecForecast: forecast_pcs called on a factor set whose history ends at *)
(* last_observed.                                                          *)
(***************************************************************************)
\* last periods of the panel: the quarters around 2023-06-30, the last
\* period of the shipped input
LastObservedSet == {AddQuarters(Quarter(2022, 4), k) : k \in 0..(4 * MaxPeriods)}

\* a factor set of k well-formed columns
AnyFactorSet(k) == [i \in 1..k |-> [name |-> PCName(i - 1), isna |-> FALSE, nunique |-> 2]]

InitForecast ==
    /\ pc = "forecast_pcs"
    /\ status = "ok"
    /\ NoPanel
    /\ pca_runs = << >>
    /\ num_pc \in 1..MaxFactors
    /\ last_observed \in LastObservedSet
    /\ n_periods \in 1..MaxPeriods
    /\ df_pca_result = AnyFactorSet(num_pc)
    /\ df_pca_result_predict_base = << >>
    /\ NoInputs /\ NoRegression /\ NoReconstruction /\ NoScenarios

\* lines 64-80: every auto_arima fit succeeds
CallForecastPcs ==
    /\ pc = "forecast_pcs"
    /\ \E fc \in ForecastOracles(Len(df_pca_result), n_periods) :
        df_pca_result_predict_base' = forecast_pcs(df_pca_result, n_periods, fc)
    /\ pc' = "returned"
    /\ UNCHANGED <<status, pcaVars, last_observed, n_periods, df_pca_result, inVars,
                   regVars, recVars, scenVars>>

\* lines 81-82: a fit or a prediction raises, re-raised as ValueError
CallForecastPcsRaises ==
    /\ pc = "forecast_pcs"
    /\ pc' = "failed"
    /\ status' = "ValueError"
    /\ UNCHANGED <<pcaVars, fcVars, inVars, regVars, recVars, scenVars>>

NextForecast == CallForecastPcs \/ CallForecastPcsRaises

SpecForecast == InitForecast /\ [][NextForecast]_vars

(***************************************************************************)
(* Spec: the script from the PCA analysis to the output block.             *)
(***************************************************************************)
Init ==
    /\ pc = "pca"
    /\ status = "ok"
    /\ macro_data_filled = InputPanel
    /\ data_shape = <<Len(InputPanel), Len(macro_list_candidates)>>
    /\ explained_variance = << >>
    /\ pca_runs = << >>
    /\ num_pc = 0
    /\ last_observed = InputPanel[Len(InputPanel)].date
    /\ n_periods = predict_period
    /\ df_pca_result = << >>
    /\ df_pca_result_predict_base = << >>
    /\ Mean = PanelMean(InputPanel)
    /\ Std = PanelStd(InputPanel)
    /\ Std_10Y = PanelStd(InputPanel10Y)
    /\ macro_list_sign \in [Variables -> SignVals]
    /\ NoRegression /\ NoReconstruction /\ NoScenarios

\* line 139; the normalized panel has positive total variance
PcaAnalysis ==
    /\ pc = "pca"
    /\ \E ev \in VarianceSeqs(data_shape[1], data_shape[2]) :
        /\ SumTo(ev, Len(ev)) > 0
        /\ LET r == apply_pca(data_shape, ev, variance_threshold) IN
            /\ status' = r.status
            /\ num_pc' = r.num_pc
            /\ pc' = IF r.status = "ok" THEN "univariate" ELSE "failed"
            /\ df_pca_result' = IF r.status = "ok" THEN FactorSet(ev, r.num_pc) ELSE << >>
    /\ UNCHANGED <<data_shape, explained_variance, pca_runs, last_observed, n_periods,
                   df_pca_result_predict_base, inVars, regVars, recVars, scenVars>>

\* lines 144-167; an empty univariate_info has no 'p_value' column (KeyError)
UnivariateRegression ==
    /\ pc = "univariate"
    /\ \E fits \in [Variables \X (0..(num_pc - 1)) -> UnivariateFits] :
        LET info == UnivariateInfo(df_pca_result, fits) IN
        /\ univariate_fits' = fits
        /\ df_univariate_info' = info
        /\ df_univariate_info_filter' = SelectSeq(info, KeepRow)
        /\ status' = IF info = << >> THEN "KeyError" ELSE "ok"
        /\ pc' = IF info = << >> THEN "failed" ELSE "multivariate"
    /\ UNCHANGED <<pcaVars, fcVars, inVars, df_pca_regression, recVars, scenVars>>

\* lines 170-214
MultivariateRegression ==
    /\ pc = "multivariate"
    /\ \E fits \in [Variables -> MultivariateFits(num_pc + 1)] :
        df_pca_regression' = RegressionFrame(df_univariate_info_filter, fits)
    /\ pc' = "forecast"
    /\ UNCHANGED <<status, pcaVars, fcVars, inVars, univariate_fits, df_univariate_info,
                   df_univariate_info_filter, recVars, scenVars>>

\* line 219
ForecastPCs ==
    /\ pc = "forecast"
    /\ \E fc \in ForecastOracles(Len(df_pca_result), n_periods) :
        df_pca_result_predict_base' = forecast_pcs(df_pca_result, n_periods, fc)
    /\ pc' = "reconstruct"
    /\ UNCHANGED <<status, pcaVars, last_observed, n_periods, df_pca_result, inVars,
                   regVars, recVars, scenVars>>

\* line 219, forecast_pcs raising
ForecastPCsRaises ==
    /\ pc = "forecast"
    /\ pc' = "failed"
    /\ status' = "ValueError"
    /\ UNCHANGED <<pcaVars, fcVars, inVars, regVars, recVars, scenVars>>

\* lines 222-262: the merge loop, the group sums and the de-normalization
Reconstruct ==
    /\ pc = "reconstruct"
    /\ LET loop == ReconstructLoop(StartFrame(df_pca_regression), << >>, 1,
                                   df_pca_result_predict_base)
           n == Len(df_pca_result_predict_base.index)
           concat == ConcatBase(GroupBySum(loop.frame, n), n, Mean, Std, Std_10Y)
       IN /\ merged_frames' = loop.merged
          /\ df_pca_regression_predict_base' = loop.frame
          /\ df_pca_result_base' = concat
          /\ df_pca_regression_predict_final_base' = DeNormalize(concat, n, Mean, Std)
    /\ pc' = "scenarios"
    /\ UNCHANGED <<status, pcaVars, fcVars, inVars, regVars, scenVars>>

\* lines 264-297
Scenarios ==
    /\ pc = "scenarios"
    /\ LET n == Len(df_pca_result_predict_base.index)
           final == FinalFrame(df_pca_regression_predict_final_base, n, Std_10Y,
                               macro_list_sign)
       IN /\ df_pca_regression_predict_final_opt' = Scenario(final, n, 1, n_normal)
          /\ df_pca_regression_predict_final_pes' = Scenario(final, n, 0 - 1, n_normal)
          /\ df_pca_regression_predict_final_ext_opt' = Scenario(final, n, 1, n_extreme)
          /\ df_pca_regression_predict_final_ext_pes' = Scenario(final, n, 0 - 1, n_extreme)
    /\ pc' = "output"
    /\ UNCHANGED <<status, pcaVars, fcVars, inVars, regVars, recVars>>

\* lines 306-330: the writer opens, the five tables are rebound to the panel
\* followed by their transposed forecasts, and the sheets are written; line
\* 308 renames the columns of df_pca_regression_predict_base with an identity
\* mapping none of whose keys is a column of that frame
Output ==
    /\ pc = "output"
    /\ LET index == df_pca_result_predict_base.index
       IN /\ df_pca_regression_predict_final_base' =
                ConcatHistory(macro_data_filled, df_pca_regression_predict_final_base, index)
          /\ df_pca_regression_predict_final_opt' =
                ConcatHistory(macro_data_filled, df_pca_regression_predict_final_opt, index)
          /\ df_pca_regression_predict_final_pes' =
                ConcatHistory(macro_data_filled, df_pca_regression_predict_final_pes, index)
          /\ df_pca_regression_predict_final_ext_opt' =
                ConcatHistory(macro_data_filled, df_pca_regression_predict_final_ext_opt, index)
          /\ df_pca_regression_predict_final_ext_pes' =
                ConcatHistory(macro_data_filled, df_pca_regression_predict_final_ext_pes, index)
    /\ pc' = "done"
    /\ UNCHANGED <<status, pcaVars, fcVars, inVars, regVars, merged_frames,
                   df_pca_regression_predict_base, df_pca_result_base>>

\* line 306: pd.ExcelWriter(output_path) raises when the directory
\* C:\Users\Desktop does not exist; no table is rebound
OutputRaises ==
    /\ pc = "output"
    /\ pc' = "failed"
    /\ status' = "OSError"
    /\ UNCHANGED <<pcaVars, fcVars, inVars, regVars, recVars, scenVars>>

Next ==
    \/ PcaAnalysis
    \/ UnivariateRegression
    \/ MultivariateRegression
    \/ ForecastPCs
    \/ ForecastPCsRaises
    \/ Reconstruct
    \/ Scenarios
    \/ Output
    \/ OutputRaises

Spec == Init /\ [][Next]_vars

(***************************************************************************)
(* Properties of apply_pca (verified under SpecPCA).                       *)
(***************************************************************************)
RunIds == 1..Len(pca_runs)
Cap == Min(data_shape[1], data_shape[2])

\* the cumulative explained-variance ratio of the first k components is
\* defined and at least t
RatioAtLeast(k, t) ==
    /\ SumTo(explained_variance, Len(explained_variance)) > 0
    /\ SumTo(explained_variance, k) * t[2]
         >= t[1] * SumTo(explained_variance, Len(explained_variance))

\* the factor count the claim prescribes for threshold t
PrescribedCount(t) ==
    IF \E k \in 1..Cap : RatioAtLeast(k, t)
    THEN CHOOSE k \in 1..Cap :
            RatioAtLeast(k, t) /\ \A j \in 1..(k - 1) : ~RatioAtLeast(j, t)
    ELSE Cap

\* C1: for every panel with at least 2 columns and every threshold in (0,1),
\* apply_pca returns the smallest k whose cumulative explained-variance ratio
\* is >= the threshold, and the cap min(rows, columns) when no k within the
\* cap reaches it; in all cases k <= min(rows, columns).
C1_FactorCountIsSmallestOrCap ==
    \A i \in RunIds :
        data_shape[2] >= 2 =>
            /\ pca_runs[i].status = "ok"
            /\ pca_runs[i].num_pc = PrescribedCount(pca_runs[i].thr)
            /\ pca_runs[i].num_pc <= Cap

\* what the code does keep of C1: a returned count is the prescribed one
C1_ReturnedCountIsPrescribed ==
    \A i \in RunIds :
        pca_runs[i].status = "ok" =>
            /\ pca_runs[i].num_pc = PrescribedCount(pca_runs[i].thr)
            /\ pca_runs[i].num_pc <= Cap

\* C2 (as stated): for thresholds t1 <= t2 on the same panel, k(t2) <= k(t1).
C2_CountNonIncreasing ==
    \A i \in RunIds : \A j \in RunIds :
        (/\ pca_runs[i].status = "ok"
         /\ pca_runs[j].status = "ok"
         /\ ThrLeq(pca_runs[i].thr, pca_runs[j].thr))
            => pca_runs[j].num_pc <= pca_runs[i].num_pc

\* C2 (amended): for thresholds t1 <= t2 on the same panel for which apply_pca
\* returns, the factor count is non-decreasing: k(t1) <= k(t2).
C2_CountNonDecreasing ==
    \A i \in RunIds : \A j \in RunIds :
        (/\ pca_runs[i].status = "ok"
         /\ pca_runs[j].status = "ok"
         /\ ThrLeq(pca_runs[i].thr, pca_runs[j].thr))
            => pca_runs[i].num_pc <= pca_runs[j].num_pc

\* two returned calls on one panel, the larger threshold giving more factors
C2_Witness ==
    \E i \in RunIds : \E j \in RunIds :
        /\ pca_runs[i].status = "ok"
        /\ pca_runs[j].status = "ok"
        /\ ThrLeq(pca_runs[i].thr, pca_runs[j].thr)
        /\ ~ThrLeq(pca_runs[j].thr, pca_runs[i].thr)
        /\ pca_runs[i].num_pc < pca_runs[j].num_pc

(***************************************************************************)
(* Properties of forecast_pcs (verified under SpecForecast).               *)
(***************************************************************************)
\* C8: the table returned by forecast_pcs has n_periods rows and one column
\* per factor, and its labels are consecutive quarters, the first being the
\* quarter right after the last observed period of the input factor series.
C8_ForecastShapeAndLabels ==
    pc = "returned" =>
        /\ Len(df_pca_result_predict_base.index) = n_periods
        /\ Len(df_pca_result_predict_base.values) = n_periods
        /\ df_pca_result_predict_base.columns = PCNames(Len(df_pca_result))
        /\ \A j \in 1..n_periods :
            /\ Len(df_pca_result_predict_base.values[j]) = Len(df_pca_result)
            /\ df_pca_result_predict_base.index[j] = AddQuarters(last_observed, j)

\* what the code does keep of C8: the shape, and consecutive quarters from
\* the fixed start 2023-09-30
C8_ShapeAndFixedStart ==
    pc = "returned" =>
        /\ Len(df_pca_result_predict_base.index) = n_periods
        /\ df_pca_result_predict_base.columns = PCNames(Len(df_pca_result))
        /\ \A j \in 1..n_periods :
            /\ Len(df_pca_result_predict_base.values[j]) = Len(df_pca_result)
            /\ df_pca_result_predict_base.index[j] = AddQuarters(Quarter(2023, 2), j)

(***************************************************************************)
(* Properties of the pipeline (verified under Spec).                       *)
(***************************************************************************)
Screened ==
    pc \in {"multivariate", "forecast", "reconstruct", "scenarios", "output", "done"}
\* the base forecast is built and still indexed by variable (lines 262-305)
Reconstructed == pc \in {"scenarios", "output"}
\* the scenario tables are built and still indexed by variable (lines 297-305)
ScenariosBuilt == pc = "output"
Periods == 1..Len(df_pca_result_predict_base.index)

\* the pair (v, component i) is in the filtered screening table
Retained(v, i) ==
    \E k \in 1..Len(df_univariate_info_filter) :
        /\ df_univariate_info_filter[k].macro_variable = v
        /\ df_univariate_info_filter[k].pca_component = i

HasRetainedFactor(v) == \E i \in 0..(num_pc - 1) : Retained(v, i)

HasRecord(v) ==
    \E r \in 1..Len(df_pca_regression) : df_pca_regression[r].macro_variable = v

\* C3: screening retains a (variable, factor) pair if and only if the factor's
\* univariate p-value is strictly below p_value_threshold and the R-squared
\* strictly above r2_threshold (equal values are excluded), and never retains
\* a pair whose factor series is constant or undefined.
C3_ScreeningIsStrict ==
    Screened =>
        \A v \in Variables : \A i \in 0..(num_pc - 1) :
            LET fit == univariate_fits[<<v, i>>]
                factor_p == fit.pvalues[2]
                degenerate == df_pca_result[i + 1].isna \/ df_pca_result[i + 1].nunique <= 1
            IN /\ Retained(v, i) <=>
                    /\ ~degenerate
                    /\ ~factor_p.nan /\ factor_p.v < p_value_threshold
                    /\ ~fit.rsquared.nan /\ fit.rsquared.v > r2_threshold
               /\ degenerate => ~Retained(v, i)

\* a screened state with a retained pair, a pair excluded for a p-value equal
\* to the threshold and a pair excluded for an R-squared equal to the threshold
C3_Witness ==
    /\ Screened
    /\ \E v \in Variables : \E i \in 0..(num_pc - 1) : Retained(v, i)
    /\ \E k \in 1..Len(df_univariate_info) :
        /\ df_univariate_info[k].p_value = Num(p_value_threshold)
        /\ ~Retained(df_univariate_info[k].macro_variable, df_univariate_info[k].pca_component)
    /\ \E k \in 1..Len(df_univariate_info) :
        /\ df_univariate_info[k].r_squared = Num(r2_threshold)
        /\ ~Retained(df_univariate_info[k].macro_variable, df_univariate_info[k].pca_component)

ScenarioTables ==
    {df_pca_regression_predict_final_opt, df_pca_regression_predict_final_pes,
     df_pca_regression_predict_final_ext_opt, df_pca_regression_predict_final_ext_pes}

\* C4: a variable has a regression record if and only if it has a retained
\* factor, and a variable with no retained factor has no entry, not even an
\* undefined one, in the base forecast or in any of the four scenario tables.
C4_NoRecordNoEntry ==
    ScenariosBuilt =>
        \A v \in Variables :
            /\ HasRecord(v) <=> HasRetainedFactor(v)
            /\ ~HasRetainedFactor(v) =>
                /\ v \notin DOMAIN df_pca_regression_predict_final_base
                /\ \A tbl \in ScenarioTables : v \notin DOMAIN tbl

\* what the code does keep of C4: the record is there exactly for the
\* variables with a retained factor, and the others have only undefined values
C4_NoRecordOnlyUndefined ==
    ScenariosBuilt =>
        \A v \in Variables :
            /\ HasRecord(v) <=> HasRetainedFactor(v)
            /\ ~HasRetainedFactor(v) =>
                /\ \A j \in Periods : df_pca_regression_predict_final_base[v][j].nan
                /\ \A tbl \in ScenarioTables : \A j \in Periods : tbl[v][j].nan

\* the column of the forecast table named by a record row
ColumnNamed(name) ==
    CHOOSE i \in 1..Len(df_pca_result_predict_base.columns) :
        df_pca_result_predict_base.columns[i] = name

\* some record row names a factor whose forecast is undefined in some period
RecordMissesForecast ==
    \E r \in 1..Len(df_pca_regression) : \E j \in Periods :
        /\ df_pca_regression[r].principal # "Intercept"
        /\ \/ df_pca_regression[r].principal
                \notin {df_pca_result_predict_base.columns[i] :
                            i \in 1..Len(df_pca_result_predict_base.columns)}
           \/ df_pca_result_predict_base.values[j][ColumnNamed(df_pca_regression[r].principal)].nan

\* C5: if a record references a non-intercept factor that has no value in the
\* forecast row of some period, reconstruction fails with ReconstructionError
\* and produces no forecast; no default value stands in for the missing one.
C5_MissingFactorFailsClosed ==
    (Reconstructed /\ RecordMissesForecast) =>
        /\ status = "ReconstructionError"
        /\ df_pca_regression_predict_final_base = << >>

\* v has a (defined) value in the base forecast
HasBaseForecast(v) ==
    /\ v \in DOMAIN df_pca_regression_predict_final_base
    /\ \E j \in Periods : ~df_pca_regression_predict_final_base[v][j].nan

\* C6: a variable present in the base forecast with no sign makes the scenario
\* generator fail with ConfigurationError; no scenario table is produced.
C6_MissingSignFails ==
    (/\ ScenariosBuilt
     /\ \E v \in Variables : HasBaseForecast(v) /\ Cell(macro_list_sign, v).nan) =>
        /\ status = "ConfigurationError"
        /\ \A tbl \in ScenarioTables : tbl = << >>

\* the shift n * secondary_std * sign of a variable
Shift(v, n) == FMul(FMul(Num(n), Cell(Std_10Y, v)), Cell(macro_list_sign, v))

\* C7: for every variable with a base forecast and every period,
\* optimistic - base = base - pessimistic = n_normal * std_10Y * sign and
\* ext_opt - base = base - ext_pes = n_extreme * std_10Y * sign, exactly, and
\* the four scenario tables have the variables and periods of the base table.
C7_ScenarioSymmetry ==
    ScenariosBuilt =>
        /\ \A tbl \in ScenarioTables :
            /\ DOMAIN tbl = DOMAIN df_pca_regression_predict_final_base
            /\ \A v \in DOMAIN tbl :
                DOMAIN tbl[v] = DOMAIN df_pca_regression_predict_final_base[v]
        /\ \A v \in Variables : \A j \in Periods :
            (v \in DOMAIN df_pca_regression_predict_final_base
                /\ ~df_pca_regression_predict_final_base[v][j].nan) =>
            LET base == df_pca_regression_predict_final_base[v][j] IN
            /\ FEq(FSub(df_pca_regression_predict_final_opt[v][j], base), Shift(v, n_normal))
            /\ FEq(FSub(base, df_pca_regression_predict_final_pes[v][j]), Shift(v, n_normal))
            /\ FEq(FSub(df_pca_regression_predict_final_ext_opt[v][j], base), Shift(v, n_extreme))
            /\ FEq(FSub(base, df_pca_regression_predict_final_ext_pes[v][j]), Shift(v, n_extreme))

\* what the code does keep of C7: the symmetry for the variables whose sign
\* is defined, and the common shape
C7_SymmetryWhereSigned ==
    ScenariosBuilt =>
        /\ \A tbl \in ScenarioTables :
            DOMAIN tbl = DOMAIN df_pca_regression_predict_final_base
        /\ \A v \in Variables : \A j \in Periods :
            (/\ v \in DOMAIN df_pca_regression_predict_final_base
             /\ ~df_pca_regression_predict_final_base[v][j].nan
             /\ ~Cell(macro_list_sign, v).nan) =>
            LET base == df_pca_regression_predict_final_base[v][j] IN
            /\ FEq(FSub(df_pca_regression_predict_final_opt[v][j], base), Shift(v, n_normal))
            /\ FEq(FSub(base, df_pca_regression_predict_final_pes[v][j]), Shift(v, n_normal))
            /\ FEq(FSub(df_pca_regression_predict_final_ext_opt[v][j], base), Shift(v, n_extreme))
            /\ FEq(FSub(base, df_pca_regression_predict_final_ext_pes[v][j]), Shift(v, n_extreme))

\* the five tables the output block rebinds
OutputTables ==
    {df_pca_regression_predict_final_base} \cup ScenarioTables

\* when the script ends normally every one of the five tables holds the rows
\* of the panel followed by one row per forecast period, with one column per
\* variable
OutputShape ==
    pc = "done" =>
        \A tbl \in OutputTables :
            /\ Len(tbl) = Len(macro_data_filled) + Len(df_pca_result_predict_base.index)
            /\ \A i \in 1..Len(tbl) : DOMAIN tbl[i].cells = Variables
            /\ \A i \in 1..Len(macro_data_filled) :
                /\ tbl[i].label = [date |-> macro_data_filled[i].date, suffix |-> ""]
                /\ tbl[i].cells = macro_data_filled[i].cells
            /\ \A j \in Periods :
                tbl[Len(macro_data_filled) + j].label
                    = [date |-> df_pca_result_predict_base.index[j], suffix |-> "_predict"]

\* the output block carries every forecast cell of line 297 into the row of
\* its period, unchanged
OutputKeepsForecasts ==
    [][Output =>
        \A v \in Variables : \A j \in Periods :
            LET row == Len(macro_data_filled) + j IN
            /\ df_pca_regression_predict_final_base'[row].cells[v]
                    = df_pca_regression_predict_final_base[v][j]
            /\ df_pca_regression_predict_final_opt'[row].cells[v]
                    = df_pca_regression_predict_final_opt[v][j]
            /\ df_pca_regression_predict_final_pes'[row].cells[v]
                    = df_pca_regression_predict_final_pes[v][j]
            /\ df_pca_regression_predict_final_ext_opt'[row].cells[v]
                    = df_pca_regression_predict_final_ext_opt[v][j]
            /\ df_pca_regression_predict_final_ext_pes'[row].cells[v]
                    = df_pca_regression_predict_final_ext_pes[v][j]]_vars

\* the record rows of a variable
RecordOf(v) == SelectSeq(df_pca_regression, LAMBDA r : r.macro_variable = v)

RECURSIVE TermsSum(_)
\* the arithmetic sum of a sequence of terms: undefined when a term is
TermsSum(s) == IF s = << >> THEN Num(0) ELSE FAdd(s[1], TermsSum(Tail(s)))

\* intercept * 1 + sum of coefficient * forecasted factor over the rows of the
\* record of v, for period j
LinearCombination(v, j) ==
    LET rows == RecordOf(v)
    IN TermsSum([k \in 1..Len(rows) |->
            IF rows[k].principal = "Intercept" THEN FMul(rows[k].coef, Num(1))
            ELSE FMul(rows[k].coef,
                      df_pca_result_predict_base.values[j][ColumnNamed(rows[k].principal)])])

\* C9: for every variable with a record and every period, the base forecast
\* is (intercept * 1 + sum over the factors of the record of coefficient *
\* forecasted factor) * std + mean, with the primary-window std and mean.
C9_BaseForecastFormula ==
    Reconstructed =>
        \A v \in Variables : HasRecord(v) =>
            /\ v \in DOMAIN df_pca_regression_predict_final_base
            /\ \A j \in Periods :
                df_pca_regression_predict_final_base[v][j]
                    = FAdd(FMul(LinearCombination(v, j), Std[v]), Mean[v])

ForecastsDefined ==
    \A j \in Periods : \A i \in 1..Len(df_pca_result_predict_base.values[j]) :
        ~df_pca_result_predict_base.values[j][i].nan

CoefficientsDefined ==
    \A r \in 1..Len(df_pca_regression) : ~df_pca_regression[r].coef.nan

\* what the code does keep of C9: the formula when every forecast is defined
C9_FormulaWhereDefined ==
    (Reconstructed /\ ForecastsDefined) =>
        \A v \in Variables : HasRecord(v) =>
            \A j \in Periods :
                df_pca_regression_predict_final_base[v][j]
                    = FAdd(FMul(LinearCombination(v, j), Std[v]), Mean[v])

\* the columns of the working frame other than the labels, the coefficient
\* and the period and _predict columns
Diagnostics(row) ==
    <<row.p_value, row.r_squared, row.reset_test, row.DW_test, row.sharp_test,
      row.BP_test, row.VIF_test>>

\* the fill of iteration t changes, in row r, only the cell of period t, and
\* that only in an 'Intercept' row: joined is the row as joined, before the
\* fill, and final the row after it
FillChangesOnlyIntercept(t, r) ==
    LET joined == merged_frames[t][r]
        final == df_pca_regression_predict_base[r]
    IN /\ joined.principal = df_pca_regression[r].principal
       /\ joined.principal # "Intercept" =>
            /\ \E i \in 0..(num_pc - 1) : joined.principal = PCName(i)
            /\ ~joined.period[t].nan
            /\ final.period[t] = joined.period[t]
       /\ joined.principal = "Intercept" =>
            /\ joined.period[t].nan
            /\ final.period[t] = Num(1)
       /\ joined.coef = df_pca_regression[r].coef
       /\ final.coef = joined.coef
       /\ Diagnostics(final) = Diagnostics(joined)
       /\ \A u \in 1..(t - 1) :
            /\ ~joined.period[u].nan /\ final.period[u] = joined.period[u]
            /\ ~joined.predict[u].nan /\ final.predict[u] = joined.predict[u]

\* C10: provided every forecasted factor value and every fitted coefficient is
\* defined, the fill-with-1 after each join changes only the forecast-period
\* cell of 'Intercept' rows: every other row names a factor PCi with
\* i < num_pc, its joined cell is never missing, and no coefficient, no
\* earlier column and no other cell of the frame is altered by the fill.
C10_FillTouchesOnlyIntercept ==
    (Reconstructed /\ ForecastsDefined /\ CoefficientsDefined) =>
        /\ Len(merged_frames) = Len(df_pca_result_predict_base.index)
        /\ \A t \in 1..Len(merged_frames) :
            /\ Len(merged_frames[t]) = Len(df_pca_regression)
            /\ \A r \in 1..Len(merged_frames[t]) : FillChangesOnlyIntercept(t, r)

\* every statistic stored in the regression records is defined
DiagnosticsDefined ==
    \A r \in 1..Len(df_pca_regression) :
        \A k \in 1..Len(Diagnostics(df_pca_regression[r])) :
            ~Diagnostics(df_pca_regression[r])[k].nan

\* what the code does keep of C10: when the stored statistics are defined as
\* well, the fill changes only the forecast-period cell of 'Intercept' rows
C10_FillWhereDiagnosticsDefined ==
    (Reconstructed /\ ForecastsDefined /\ CoefficientsDefined /\ DiagnosticsDefined) =>
        /\ Len(merged_frames) = Len(df_pca_result_predict_base.index)
        /\ \A t \in 1..Len(merged_frames) :
            /\ Len(merged_frames[t]) = Len(df_pca_regression)
            /\ \A r \in 1..Len(merged_frames[t]) : FillChangesOnlyIntercept(t, r)

\* whatever the statistics are, the join never misses a factor row, and the
\* fill alters no coefficient and no period or _predict column other than
\* the cell of 'Intercept' rows; the only other cells it rewrites are missing
\* statistics, which become 1
C10_FillOutsideDiagnostics ==
    (Reconstructed /\ ForecastsDefined /\ CoefficientsDefined) =>
        \A t \in 1..Len(merged_frames) : \A r \in 1..Len(merged_frames[t]) :
            LET joined == merged_frames[t][r]
                final == df_pca_regression_predict_base[r]
            IN /\ joined.principal # "Intercept" =>
                    ~joined.period[t].nan /\ final.period[t] = joined.period[t]
               /\ joined.principal = "Intercept" => final.period[t] = Num(1)
               /\ final.coef = joined.coef
               /\ \A k \in 1..Len(Diagnostics(joined)) :
                    Diagnostics(final)[k] = Fill1Hundredths(Diagnostics(joined)[k])

\* the regression records themselves are left as fitted: the loop works on a
\* copy (line 223)
RecordsKeptAsFitted ==
    [][Reconstruct => df_pca_regression' = df_pca_regression]_vars

====
